---- MODULE Spec2Model ----
(***************************************************************************)
(* A model of package percpu: the growing sharded container Values[T]      *)
(* (percpu.go:78-161), the fixed-size Pointer[T] (percpu.go:13-48) and the *)
(* Counter built on Values[atomic.Int64] (counter.go).                     *)
(*                                                                         *)
(* The heap is explicit.  A pointer to a table (a *[]*padded[T]) is the    *)
(* pair <<g, k>> of the goroutine that allocated the table and the number  *)
(* of tables it has allocated, NIL being the nil pointer; tables[<<g, k>>] *)
(* is the table, a sequence of slots.  A slot (a *padded[T]) is            *)
(* <<g, k, i>>, allocated for position i of table <<g, k>>, and val of it  *)
(* is the slot's atomic.Int64.  Nothing is ever freed, as under Go's       *)
(* garbage collector nothing that is still referenced is.                  *)
(*                                                                         *)
(* Every goroutine runs a fixed program, a sequence of calls; every        *)
(* action is one atomic step of one call.                                  *)
(***************************************************************************)
EXTENDS Integers, Sequences, FiniteSets, TLC

VARIABLES
    gomaxprocs,   \* runtime.GOMAXPROCS(0) as of now
    published,    \* Values.shards: pointer to the current table, or NIL
    tables,       \* heap of tables: tables[t] is the sequence of slots of table t
    val,          \* heap of slots: val[s] is the value of slot s
    fixed,        \* Pointer.shards of the fixed-size variant: a sequence of slots
    prog,         \* prog[g]: the calls goroutine g makes, in order
    ret,          \* ret[g]: the values returned by the calls g has completed
    gor,          \* gor[g]: program counter and locals of g's call in progress
    returned,     \* history: the <<shardID, slot>> pairs Values.Get has returned
    hist,         \* history: the tables published by a successful CAS, in order
    built,        \* history: GOMAXPROCS when NewPointer ran, 0 before it has
    outcomes      \* history: the <<t0, t1>> of the completed runs of the example

vars == <<gomaxprocs, published, tables, val, fixed, prog, ret, gor, returned, hist,
          built, outcomes>>

\* The largest GOMAXPROCS the environment sets.
MaxProcs == 2

NIL == <<>>

NoSlot == <<>>

Range(s) == {s[i] : i \in DOMAIN s}

(***************************************************************************)
(* Programs.                                                               *)
(***************************************************************************)
Call(op, n, who) == [op |-> op, n |-> n, who |-> who]
Add(n) == Call("Add", n, {})
Load == Call("Load", 0, {})
Reset == Call("Reset", 0, {})
Get == Call("Get", 0, {})
\* the fixed-size variant
NewPointer == Call("NewPointer", 0, {})
PointerGet == Call("PointerGet", 0, {})
\* the growing Pointer
GrowingGet == Call("GrowingGet", 0, {})
\* not a call of the package: the caller blocks until every goroutine of
\* `who` has completed n calls ("wait for G1 to finish executing")
WaitFor(who, n) == Call("Wait", n, who)

Goroutines == DOMAIN prog
Finished(g) == Len(ret[g]) = Len(prog[g])
Cur(g) == prog[g][Len(ret[g]) + 1]
Idle(g) == gor[g].pc = "idle" /\ ~Finished(g)

IdleLocals ==
    [pc |-> "idle", shardID |-> 0, shards |-> NIL, newShards |-> NIL,
     slot |-> NoSlot, i |-> 0, sum |-> 0, born |-> {}, seen |-> 0, visited |-> <<>>,
     before |-> 0, procs |-> 0, base |-> 0, fails |-> 0]

\* g's call in progress returns r
Return(g, r) == ret' = [ret EXCEPT ![g] = Append(@, r)]

\* the arguments of the Add calls among the first k calls of program p
RECURSIVE AddedIn(_, _)
AddedIn(p, k) ==
    IF k = 0 THEN 0
    ELSE AddedIn(p, k - 1) + (IF p[k].op = "Add" THEN p[k].n ELSE 0)

\* the arguments of the Add calls among the first k[g] calls of each
\* goroutine g of S
RECURSIVE SumAdds(_, _)
SumAdds(S, k) ==
    IF S = {} THEN 0
    ELSE LET g == CHOOSE h \in S : TRUE
         IN AddedIn(prog[g], k[g]) + SumAdds(S \ {g}, k)

\* total of the Add calls that have returned
AddsCompleted == SumAdds(Goroutines, [g \in Goroutines |-> Len(ret[g])])
\* total of the Add calls that have been invoked (returned or in progress)
AddsInvoked ==
    SumAdds(Goroutines,
            [g \in Goroutines |->
                Len(ret[g]) + (IF gor[g].pc = "idle" THEN 0 ELSE 1)])
\* total of the Add calls of the programs
AddsTotal == SumAdds(Goroutines, [g \in Goroutines |-> Len(prog[g])])

(***************************************************************************)
(* The environment: GOMAXPROCS changes at any time, to any value of D.     *)
(***************************************************************************)
SetGOMAXPROCS(D) ==
    /\ \E n \in D \ {gomaxprocs} : gomaxprocs' = n
    /\ UNCHANGED <<published, tables, val, fixed, prog, ret, gor, returned, hist, built, outcomes>>

(***************************************************************************)
(* Values.Get, percpu.go:115-146.                                          *)
(***************************************************************************)
\* getProcID: the id of the P the goroutine runs on, one of 0..GOMAXPROCS-1
ProcIDs == 0 .. gomaxprocs - 1

\* faulty variant: the bound check of the loop is off by one
NeedsGrowthLax(shards, shardID) ==
    shards = NIL \/ shardID > Len(tables[shards])

\* the loop condition of line 119
NeedsGrowth(shards, shardID) ==
    shards = NIL \/ shardID >= Len(tables[shards])

\* faulty variant: the count is GOMAXPROCS, whatever the index
NewShardCountNoClamp(n, shardID) == n

\* lines 121-126
NewShardCount(n, shardID) == IF shardID >= n THEN shardID + 1 ELSE n

\* faulty variant: the last slot of the old table is not copied
NValidDropsLast(old, count) == IF Len(old) = 0 THEN 0 ELSE Len(old) - 1

\* copy(newShards, *shards) of line 130: the number of elements copied
NValid(old, count) == IF Len(old) < count THEN Len(old) ELSE count

\* the pointer that g's next make([]*padded[T], n) returns
NewTable(g) == <<g, Cardinality({t \in DOMAIN tables : t[1] = g}) + 1>>

\* faulty variant: the old table is not copied, every position gets a fresh slot
NewShardsNoCopy(t, old, count) ==
    [i \in 1 .. count |-> <<t[1], t[2], i>>]

\* faulty variant: one slot is allocated and put at every new position
NewShardsAliased(t, old, count) ==
    [i \in 1 .. count |->
        IF i <= NValid(old, count) THEN old[i]
        ELSE <<t[1], t[2], NValid(old, count) + 1>>]

\* lines 127-134: table t is the old table's slots, then fresh slots
NewShards(t, old, count) ==
    [i \in 1 .. count |->
        IF i <= NValid(old, count) THEN old[i] ELSE <<t[1], t[2], i>>]

Deref(t) == IF t = NIL THEN <<>> ELSE tables[t]

\* line 116
GetPin(g) ==
    /\ Idle(g)
    /\ Cur(g).op \in {"Add", "Get"}
    /\ \E id \in ProcIDs :
         gor' = [gor EXCEPT ![g] = [IdleLocals EXCEPT !.pc = "load", !.shardID = id]]
    /\ UNCHANGED <<gomaxprocs, published, tables, val, fixed, prog, ret, returned, hist, built, outcomes>>

\* line 118 and the first evaluation of the loop condition; base is
\* history, the number of tables published before this load
GetLoad(g) ==
    /\ gor[g].pc = "load"
    /\ gor' = [gor EXCEPT ![g].shards = published,
                          ![g].base = Len(hist),
                          ![g].pc = IF NeedsGrowth(published, gor[g].shardID)
                                    THEN "grow" ELSE "index"]
    /\ UNCHANGED <<gomaxprocs, published, tables, val, fixed, prog, ret, returned, hist, built, outcomes>>

\* lines 121-134: read GOMAXPROCS, build the new table
GetGrow(g) ==
    /\ gor[g].pc = "grow"
    /\ LET count == NewShardCount(gomaxprocs, gor[g].shardID)
           old == Deref(gor[g].shards)
           t == NewTable(g)
           new == NewShards(t, old, count)
       IN /\ tables' = tables @@ (t :> new)
          \* new(padded[T]): the slots allocated here hold the zero value
          /\ val' = val @@ [s \in Range(new) \ DOMAIN val |-> 0]
          /\ gor' = [gor EXCEPT ![g].newShards = t, ![g].pc = "cas"]
    /\ UNCHANGED <<gomaxprocs, published, fixed, prog, ret, returned, hist, built, outcomes>>

\* faulty variant: a goroutine that loses the CAS goes on with the table it built
GetCASKeepsOwn(g) ==
    /\ gor[g].pc = "cas"
    /\ IF published = gor[g].shards
       THEN /\ published' = gor[g].newShards
            /\ hist' = Append(hist, gor[g].newShards)
       ELSE UNCHANGED <<published, hist>>
    /\ gor' = [gor EXCEPT ![g].shards = gor[g].newShards,
                          ![g].newShards = NIL, ![g].pc = "index"]
    /\ UNCHANGED <<gomaxprocs, tables, val, fixed, prog, ret, returned, built, outcomes>>

\* faulty variant: the table is published by a plain store
GetCASStores(g) ==
    /\ gor[g].pc = "cas"
    /\ published' = gor[g].newShards
    /\ hist' = Append(hist, gor[g].newShards)
    /\ gor' = [gor EXCEPT ![g].shards = gor[g].newShards,
                          ![g].newShards = NIL, ![g].pc = "index"]
    /\ UNCHANGED <<gomaxprocs, tables, val, fixed, prog, ret, returned, built, outcomes>>

\* lines 136-139; newShards is a variable of the loop body and goes out of
\* scope with the iteration; fails is history, the failed CASes of the call
GetCAS(g) ==
    /\ gor[g].pc = "cas"
    /\ IF published = gor[g].shards
       THEN /\ published' = gor[g].newShards
            /\ hist' = Append(hist, gor[g].newShards)
            /\ gor' = [gor EXCEPT ![g].shards = gor[g].newShards,
                                  ![g].newShards = NIL, ![g].pc = "index"]
       ELSE /\ gor' = [gor EXCEPT ![g].newShards = NIL, ![g].pc = "reload",
                                  ![g].fails = @ + 1]
            /\ UNCHANGED <<published, hist>>
    /\ UNCHANGED <<gomaxprocs, tables, val, fixed, prog, ret, returned, built, outcomes>>

\* faulty variant: the retry goes on from the table the failed attempt was
\* based on
GetReloadStale(g) ==
    /\ gor[g].pc = "reload"
    /\ gor' = [gor EXCEPT ![g].pc = "grow"]
    /\ UNCHANGED <<gomaxprocs, published, tables, val, fixed, prog, ret, returned, hist,
                   built, outcomes>>

\* line 141 and the next evaluation of the loop condition
GetReload(g) ==
    /\ gor[g].pc = "reload"
    /\ gor' = [gor EXCEPT ![g].shards = published,
                          ![g].pc = IF NeedsGrowth(published, gor[g].shardID)
                                    THEN "grow" ELSE "index"]
    /\ UNCHANGED <<gomaxprocs, published, tables, val, fixed, prog, ret, returned, hist, built, outcomes>>

\* lines 144-145; indexing out of range panics.  A Get called by Counter.Add
\* goes on to the atomic add, a Get called directly returns the slot.
GetIndex(g) ==
    /\ gor[g].pc = "index"
    /\ IF gor[g].shardID < Len(Deref(gor[g].shards))
       THEN LET s == tables[gor[g].shards][gor[g].shardID + 1]
            IN /\ returned' = returned \cup {<<gor[g].shardID, s>>}
               /\ IF Cur(g).op = "Add"
                  THEN /\ gor' = [gor EXCEPT ![g].slot = s, ![g].pc = "add"]
                       /\ ret' = ret
                  ELSE /\ gor' = [gor EXCEPT ![g] = IdleLocals]
                       /\ Return(g, s)
       ELSE /\ gor' = [gor EXCEPT ![g].pc = "panic"]
            /\ UNCHANGED <<ret, returned>>
    /\ UNCHANGED <<gomaxprocs, published, tables, val, fixed, prog, hist, built, outcomes>>

(***************************************************************************)
(* Counter, counter.go:37-58, and Values.Do, percpu.go:152-161.            *)
(***************************************************************************)
\* faulty variant: the slot is overwritten, as by a store of n or by a read and a
\* write that lose the Adds in between
AtomicAddStores(v, s, n) == [v EXCEPT ![s] = n]
\* atomic.Int64.Add
AtomicAdd(v, s, n) == [v EXCEPT ![s] = @ + n]

\* counter.go:39, the Add on the slot Get returned
CounterAdd(g) ==
    /\ gor[g].pc = "add"
    /\ val' = AtomicAdd(val, gor[g].slot, Cur(g).n)
    /\ gor' = [gor EXCEPT ![g] = IdleLocals]
    /\ Return(g, 0)
    /\ UNCHANGED <<gomaxprocs, published, tables, fixed, prog, returned, hist, built, outcomes>>

\* percpu.go:153-156: one load of the table; no table, nothing to visit.
\* born, seen and before are history: the slots allocated, the tables
\* published and the Adds completed when Do was invoked.
DoLoad(g) ==
    /\ Idle(g)
    /\ Cur(g).op \in {"Load", "Reset"}
    /\ LET l == [IdleLocals EXCEPT !.shards = published, !.i = 1,
                                   !.born = DOMAIN val, !.seen = Len(hist),
                                   !.before = AddsCompleted]
       IN IF published = NIL
          THEN /\ gor' = [gor EXCEPT ![g] = l]
               /\ Return(g, 0)
          ELSE /\ gor' = [gor EXCEPT ![g] = [l EXCEPT !.pc = "visit"]]
               /\ ret' = ret
    /\ UNCHANGED <<gomaxprocs, published, tables, val, fixed, prog, returned, hist, built, outcomes>>

\* counter.go:46 and counter.go:55: what fn adds to sum, and what it leaves
\* in the slot
FnResult(op, v, s) == v[s]
\* faulty variant: Reset reads the slot and leaves it as it is
FnEffectNoSwap(op, v, s) == v
FnEffect(op, v, s) == IF op = "Reset" THEN [v EXCEPT ![s] = 0] ELSE v

\* faulty variant: the table is loaded again at every iteration
DoVisitReloads(g) ==
    /\ gor[g].pc = "visit"
    /\ LET snap == tables[published]
           s == snap[gor[g].i]
           sum == gor[g].sum + FnResult(Cur(g).op, val, s)
           last == gor[g].i = Len(snap)
       IN /\ val' = FnEffect(Cur(g).op, val, s)
          /\ gor' = [gor EXCEPT ![g].sum = sum,
                                ![g].i = @ + 1,
                                ![g].visited = Append(@, s),
                                ![g].pc = IF last THEN "idle" ELSE "visit"]
          /\ IF last THEN Return(g, sum) ELSE ret' = ret
    /\ UNCHANGED <<gomaxprocs, published, tables, fixed, prog, returned, hist, built, outcomes>>

\* percpu.go:158-160: fn on the next slot of the snapshot; after the last
\* slot Do returns and Load/Reset return sum
DoVisit(g) ==
    /\ gor[g].pc = "visit"
    /\ LET snap == tables[gor[g].shards]
           s == snap[gor[g].i]
           sum == gor[g].sum + FnResult(Cur(g).op, val, s)
           last == gor[g].i = Len(snap)
       IN /\ val' = FnEffect(Cur(g).op, val, s)
          /\ gor' = [gor EXCEPT ![g].sum = sum,
                                ![g].i = @ + 1,
                                ![g].visited = Append(@, s),
                                ![g].pc = IF last THEN "idle" ELSE "visit"]
          /\ IF last THEN Return(g, sum) ELSE ret' = ret
    /\ UNCHANGED <<gomaxprocs, published, tables, fixed, prog, returned, hist, built, outcomes>>

\* the caller waits for other goroutines
Wait(g) ==
    /\ Idle(g)
    /\ Cur(g).op = "Wait"
    /\ \A h \in Cur(g).who : Len(ret[h]) >= Cur(g).n
    /\ Return(g, 0)
    /\ UNCHANGED <<gomaxprocs, published, tables, val, fixed, prog, gor, returned, hist, built, outcomes>>

(***************************************************************************)
(* The fixed-size Pointer, percpu.go:13-41.                                *)
(***************************************************************************)
\* faulty variant: the last shard is not built
NewPointerShardsShort(g, n) == [i \in 1 .. n - 1 |-> <<g, 1, i>>]

\* percpu.go:22-25: n shards, each a value that newVal allocates
NewPointerShards(g, n) == [i \in 1 .. n |-> <<g, 1, i>>]

\* percpu.go:21-27
NewPointerCall(g) ==
    /\ Idle(g)
    /\ Cur(g).op = "NewPointer"
    /\ LET shards == NewPointerShards(g, gomaxprocs)
       IN /\ fixed' = shards
          /\ val' = val @@ [s \in Range(shards) |-> 0]
    /\ built' = gomaxprocs
    /\ Return(g, 0)
    /\ UNCHANGED <<gomaxprocs, published, tables, prog, gor, returned, hist, outcomes>>

\* percpu.go:40, the call of getProcID; procs is history, GOMAXPROCS when
\* the hint was read
PointerGetPin(g) ==
    /\ Idle(g)
    /\ Cur(g).op = "PointerGet"
    /\ \E id \in ProcIDs :
         gor' = [gor EXCEPT ![g] = [IdleLocals EXCEPT !.pc = "pindex", !.shardID = id,
                                                     !.procs = gomaxprocs]]
    /\ UNCHANGED <<gomaxprocs, published, tables, val, fixed, prog, ret, returned, hist,
                   built, outcomes>>

\* percpu.go:40, p.shards[...]; indexing out of range panics.  The locals
\* are kept after the return, as history.
PointerGetIndex(g) ==
    /\ gor[g].pc = "pindex"
    /\ IF gor[g].shardID < Len(fixed)
       THEN /\ gor' = [gor EXCEPT ![g].slot = fixed[gor[g].shardID + 1], ![g].pc = "idle"]
            /\ Return(g, fixed[gor[g].shardID + 1])
       ELSE /\ gor' = [gor EXCEPT ![g].pc = "panic"]
            /\ ret' = ret
    /\ UNCHANGED <<gomaxprocs, published, tables, val, fixed, prog, returned, hist,
                   built, outcomes>>

(***************************************************************************)
(* The growing Pointer, percpu.go:190-258.  Its field shards             *)
(* (percpu.go:196) is `published`: a specification has one container.      *)
(***************************************************************************)
\* the loop condition of line 231
PointerNeedsGrowth(shards, shardID) ==
    shards = NIL \/ shardID > Len(tables[shards])

\* line 228
GrowingGetPin(g) ==
    /\ Idle(g)
    /\ Cur(g).op = "GrowingGet"
    /\ \E id \in ProcIDs :
         gor' = [gor EXCEPT ![g] = [IdleLocals EXCEPT !.pc = "gp_load", !.shardID = id]]
    /\ UNCHANGED <<gomaxprocs, published, tables, val, fixed, prog, ret, returned, hist,
                   built, outcomes>>

\* line 230 and the first evaluation of the loop condition
GrowingGetLoad(g) ==
    /\ gor[g].pc = "gp_load"
    /\ gor' = [gor EXCEPT ![g].shards = published,
                          ![g].pc = IF PointerNeedsGrowth(published, gor[g].shardID)
                                    THEN "gp_grow" ELSE "gp_index"]
    /\ UNCHANGED <<gomaxprocs, published, tables, val, fixed, prog, ret, returned, hist,
                   built, outcomes>>

\* lines 233-246
GrowingGetGrow(g) ==
    /\ gor[g].pc = "gp_grow"
    /\ LET count == NewShardCount(gomaxprocs, gor[g].shardID)
           old == Deref(gor[g].shards)
           t == NewTable(g)
           new == NewShards(t, old, count)
       IN /\ tables' = tables @@ (t :> new)
          /\ val' = val @@ [s \in Range(new) \ DOMAIN val |-> 0]
          /\ gor' = [gor EXCEPT ![g].newShards = t, ![g].pc = "gp_cas"]
    /\ UNCHANGED <<gomaxprocs, published, fixed, prog, ret, returned, hist, built, outcomes>>

\* lines 248-251
GrowingGetCAS(g) ==
    /\ gor[g].pc = "gp_cas"
    /\ IF published = gor[g].shards
       THEN /\ published' = gor[g].newShards
            /\ hist' = Append(hist, gor[g].newShards)
            /\ gor' = [gor EXCEPT ![g].shards = gor[g].newShards,
                                  ![g].newShards = NIL, ![g].pc = "gp_index"]
       ELSE /\ gor' = [gor EXCEPT ![g].newShards = NIL, ![g].pc = "gp_reload"]
            /\ UNCHANGED <<published, hist>>
    /\ UNCHANGED <<gomaxprocs, tables, val, fixed, prog, ret, returned, built, outcomes>>

\* line 253 and the next evaluation of the loop condition
GrowingGetReload(g) ==
    /\ gor[g].pc = "gp_reload"
    /\ gor' = [gor EXCEPT ![g].shards = published,
                          ![g].pc = IF PointerNeedsGrowth(published, gor[g].shardID)
                                    THEN "gp_grow" ELSE "gp_index"]
    /\ UNCHANGED <<gomaxprocs, published, tables, val, fixed, prog, ret, returned, hist,
                   built, outcomes>>

\* lines 256-257; indexing out of range panics.  The locals are kept after
\* the return, as history.
GrowingGetIndex(g) ==
    /\ gor[g].pc = "gp_index"
    /\ IF gor[g].shardID < Len(Deref(gor[g].shards))
       THEN LET s == tables[gor[g].shards][gor[g].shardID + 1]
            IN /\ returned' = returned \cup {<<gor[g].shardID, s>>}
               /\ gor' = [gor EXCEPT ![g].slot = s, ![g].pc = "idle"]
               /\ Return(g, s)
       ELSE /\ gor' = [gor EXCEPT ![g].pc = "panic"]
            /\ UNCHANGED <<ret, returned>>
    /\ UNCHANGED <<gomaxprocs, published, tables, val, fixed, prog, hist, built, outcomes>>

\* counter.go:32-35 and the example of counter.go:14-27 run again: a fresh
\* Counter replaces the one of the run that has ended, whose <<t0, t1>> is
\* recorded
Restart ==
    /\ \A g \in Goroutines : Finished(g)
    /\ outcomes' = outcomes \cup {<<ret["G2"][1], ret["G2"][3]>>}
    /\ published' = NIL
    /\ tables' = <<>>
    /\ val' = <<>>
    /\ ret' = [g \in Goroutines |-> <<>>]
    /\ gor' = [g \in Goroutines |-> IdleLocals]
    /\ returned' = {}
    /\ hist' = <<>>
    /\ UNCHANGED <<gomaxprocs, fixed, prog, built>>

(***************************************************************************)
(* Specifications.                                                         *)
(***************************************************************************)
InitWith(p, D) ==
    /\ gomaxprocs \in D
    /\ published = NIL
    /\ tables = <<>>
    /\ val = <<>>
    /\ fixed = <<>>
    /\ prog = p
    /\ ret = [g \in DOMAIN p |-> <<>>]
    /\ gor = [g \in DOMAIN p |-> IdleLocals]
    /\ returned = {}
    /\ hist = <<>>
    /\ built = 0
    /\ outcomes = {}

AllProcs == 1 .. MaxProcs

\* The example of counter.go:14-27: G1 adds 1 then 2; G2 resets, waits for
\* G1 to finish, then loads.  G3 races G1 for the growth of the table
\* and adds nothing to the total.
PartitionProg ==
    [G1 |-> <<Add(1), Add(2)>>,
     G2 |-> <<Reset, WaitFor({"G1"}, 2), Load>>,
     G3 |-> <<Add(0)>>]

Init == InitWith(PartitionProg, AllProcs)

Next ==
    \/ SetGOMAXPROCS(AllProcs)
    \/ \E g \in Goroutines : GetPin(g)
    \/ \E g \in Goroutines : GetLoad(g)
    \/ \E g \in Goroutines : GetGrow(g)
    \/ \E g \in Goroutines : GetCAS(g)
    \/ \E g \in Goroutines : GetReload(g)
    \/ \E g \in Goroutines : GetIndex(g)
    \/ \E g \in Goroutines : CounterAdd(g)
    \/ \E g \in Goroutines : DoLoad(g)
    \/ \E g \in Goroutines : DoVisit(g)
    \/ \E g \in Goroutines : Wait(g)

Spec == Init /\ [][Next]_vars

\* C1 (partition law): once G2's Load has returned t1, after its Reset
\* returned t0 and both Adds of G1 had returned, t0 + t1 = 3.
PartitionLaw ==
    Finished("G2") => ret["G2"][1] + ret["G2"][3] = 3

\* G2 has run to its end while the table grew twice and G1 lost a CAS
PartitionWitness ==
    /\ Finished("G2")
    /\ Len(hist) >= 2
    /\ Cardinality(DOMAIN tables) > Len(hist)
    /\ ret["G2"][1] > 0
    /\ ret["G2"][3] > 0


(***************************************************************************)
(* Conservation: concurrent adders, racing for the growth of the table,   *)
(* and a reader that loads once all of them have returned.                 *)
(***************************************************************************)
ConservationProg ==
    [A1 |-> <<Add(1)>>,
     A2 |-> <<Add(2)>>,
     A3 |-> <<Add(4)>>,
     R |-> <<WaitFor({"A1", "A2", "A3"}, 1), Load>>]

InitConservation == InitWith(ConservationProg, AllProcs)

SpecConservation == InitConservation /\ [][Next]_vars

\* C2 (conservation): a Load that starts after every Add has returned
\* returns the sum of the arguments of all the Adds.
Conservation ==
    Finished("R") => ret["R"][2] = AddsTotal

\* the Load has returned after an adder lost a CAS and the adders used
\* more than one slot
ConservationWitness ==
    /\ Finished("R")
    /\ Cardinality(DOMAIN tables) > Len(hist)
    /\ Cardinality({p[2] : p \in returned}) >= 2

(***************************************************************************)
(* The scenario of four adders: each adds 1 once, concurrently; the reader *)
(* then loads, resets and loads.  After that A1 adds 2 and the reader      *)
(* resets and loads again.  GOMAXPROCS is whatever it was at the start.    *)
(***************************************************************************)
Adders == {"A1", "A2", "A3", "A4"}

ScenarioProg ==
    [g \in Adders \cup {"R"} |->
        IF g = "R"
        THEN <<WaitFor(Adders, 1), Load, Reset, Load,
               WaitFor({"A1"}, 3), Reset, Load>>
        ELSE IF g = "A1" THEN <<Add(1), WaitFor({"R"}, 4), Add(2)>>
        ELSE <<Add(1)>>]

InitScenario == InitWith(ScenarioProg, AllProcs)

NextScenario ==
    \/ \E g \in Goroutines : GetPin(g)
    \/ \E g \in Goroutines : GetLoad(g)
    \/ \E g \in Goroutines : GetGrow(g)
    \/ \E g \in Goroutines : GetCAS(g)
    \/ \E g \in Goroutines : GetReload(g)
    \/ \E g \in Goroutines : GetIndex(g)
    \/ \E g \in Goroutines : CounterAdd(g)
    \/ \E g \in Goroutines : DoLoad(g)
    \/ \E g \in Goroutines : DoVisit(g)
    \/ \E g \in Goroutines : Wait(g)

SpecScenario == InitScenario /\ [][NextScenario]_vars

\* what the reader's calls return: the wait, Load = 4, Reset = 4, Load = 0,
\* the wait, Reset = 2 (the Add since the last Reset), Load = 0
ScenarioReturns == <<0, 4, 4, 0, 0, 2, 0>>

\* C3 (reset correctness): with no Add in flight, Load returns the total
\* added, Reset returns what was added since the counter was created or
\* last reset, and the Load that follows a Reset returns 0.
ResetCorrect ==
    \A k \in 1 .. Len(ret["R"]) : ret["R"][k] = ScenarioReturns[k]

\* the reader has made all its calls, after an adder lost a CAS
ResetWitness ==
    /\ Finished("R")
    /\ Cardinality(DOMAIN tables) > Len(hist)

(***************************************************************************)
(* A Load or Reset racing the Adds: G2 resets and loads at once, while G1  *)
(* and G3 add.                                                             *)
(***************************************************************************)
InFlightProg ==
    [G1 |-> <<Add(1), Add(2)>>,
     G2 |-> <<Reset, Load>>,
     G3 |-> <<Add(4)>>]

InitInFlight == InitWith(InFlightProg, AllProcs)

NextInFlight ==
    \/ SetGOMAXPROCS(AllProcs)
    \/ \E g \in Goroutines : GetPin(g)
    \/ \E g \in Goroutines : GetLoad(g)
    \/ \E g \in Goroutines : GetGrow(g)
    \/ \E g \in Goroutines : GetCAS(g)
    \/ \E g \in Goroutines : GetReload(g)
    \/ \E g \in Goroutines : GetIndex(g)
    \/ \E g \in Goroutines : CounterAdd(g)
    \/ \E g \in Goroutines : DoLoad(g)
    \/ \E g \in Goroutines : DoVisit(g)

SpecInFlight == InitInFlight /\ [][NextInFlight]_vars

\* the step in which G2's Load returns
LoadReturns == Len(ret["G2"]) = 1 /\ Len(ret'["G2"]) = 2

\* C4 as stated: when the Load that follows the one Reset returns, Reset's
\* result plus Load's equals the total of the Adds that have returned.
InFlightExact ==
    [][LoadReturns => ret'["G2"][1] + ret'["G2"][2] = AddsCompleted']_vars

\* C4 as amended: Reset's result plus Load's is at least the total of the
\* Adds that had returned when Load was invoked and at most the total of
\* the Adds that had been invoked when Load returns.
InFlightBounds ==
    [][LoadReturns =>
         /\ gor'["G2"].before <= ret'["G2"][1] + ret'["G2"][2]
         /\ ret'["G2"][1] + ret'["G2"][2] <= AddsInvoked']_vars

\* Load has returned, Reset had taken something, and Load counted an Add
\* that had not returned when Load was invoked
InFlightWitness ==
    /\ Finished("G2")
    /\ ret["G2"][1] > 0
    /\ gor["G2"].before < ret["G2"][1] + ret["G2"][2]

(***************************************************************************)
(* Values on its own: G1 and G2 call Get, racing for the growth of the     *)
(* table, while G3 calls Do (with the fn of Counter.Load).                 *)
(***************************************************************************)
ValuesProg ==
    [G1 |-> <<Get, Get>>,
     G2 |-> <<Get, Get>>,
     G3 |-> <<Load>>]

InitValues == InitWith(ValuesProg, AllProcs)

NextValues ==
    \/ SetGOMAXPROCS(AllProcs)
    \/ \E g \in Goroutines : GetPin(g)
    \/ \E g \in Goroutines : GetLoad(g)
    \/ \E g \in Goroutines : GetGrow(g)
    \/ \E g \in Goroutines : GetCAS(g)
    \/ \E g \in Goroutines : GetReload(g)
    \/ \E g \in Goroutines : GetIndex(g)
    \/ \E g \in Goroutines : DoLoad(g)
    \/ \E g \in Goroutines : DoVisit(g)

SpecValues == InitValues /\ [][NextValues]_vars

Current == Deref(published)

\* C5 (stability): a slot that Get has returned for index i is at
\* position i of the published table from then on.
Stability ==
    \A p \in returned :
        /\ p[1] < Len(Current)
        /\ Current[p[1] + 1] = p[2]

\* the table has grown since it was first published, and a slot of the
\* first table has been returned
StabilityWitness ==
    /\ Len(hist) >= 2
    /\ \E p \in returned : <<p[2][1], p[2][2]>> = hist[1]

\* the slots of the first k tables published
PublishedIn(k) == UNION {Range(tables[hist[j]]) : j \in 1 .. k}

\* g has called Do and Do has returned
DoReturned(g) ==
    /\ gor[g].pc = "idle"
    /\ gor[g].i > Len(Deref(gor[g].shards))

\* C6 as stated: every slot allocated before Do was invoked is in the
\* snapshot Do loads.
DoSeesCreated ==
    \A g \in Goroutines : gor[g].born \subseteq Range(Deref(gor[g].shards))

\* C6 as amended: every slot of a table published before Do was invoked is
\* in the snapshot Do loads, and Do has applied fn to it when it returns.
DoSeesPublished ==
    \A g \in Goroutines :
        /\ PublishedIn(gor[g].seen) \subseteq Range(Deref(gor[g].shards))
        /\ DoReturned(g) => PublishedIn(gor[g].seen) \subseteq Range(gor[g].visited)

\* a Do that was invoked after the table had grown has returned
DoSeesWitness ==
    \E g \in Goroutines :
        /\ DoReturned(g)
        /\ gor[g].seen >= 2
        /\ Len(gor[g].visited) >= 2

Injective(t) == \A i, j \in DOMAIN t : i # j => t[i] # t[j]

\* C7 (monotonic growth without aliasing): once Get has returned for each
\* of the indices 0..n-1 the published table has at least n slots; slots
\* returned for different indices differ; no published table has a slot
\* at two positions.
NoAliasing ==
    /\ \A n \in 1 .. MaxProcs :
          (\A i \in 0 .. n - 1 : \E p \in returned : p[1] = i) => Len(Current) >= n
    /\ \A p, q \in returned : p[1] # q[1] => p[2] # q[2]
    /\ \A k \in 1 .. Len(hist) : Injective(tables[hist[k]])

\* Get has returned for the indices 0 and 1, after a lost CAS and a growth
\* of a table already published
NoAliasingWitness ==
    /\ \A i \in 0 .. 1 : \E p \in returned : p[1] = i
    /\ Cardinality(DOMAIN tables) > Len(hist)
    /\ Len(hist) >= 2

(***************************************************************************)
(* GOMAXPROCS is 2 at first use and goes to 5 and back.                    *)
(***************************************************************************)
GrowProcs == {2, 5}

GrowProg ==
    [G1 |-> <<Get, Get>>,
     G2 |-> <<Get>>]

InitGrow == InitWith(GrowProg, {2})

NextGrow ==
    \/ SetGOMAXPROCS(GrowProcs)
    \/ \E g \in Goroutines : GetPin(g)
    \/ \E g \in Goroutines : GetLoad(g)
    \/ \E g \in Goroutines : GetGrow(g)
    \/ \E g \in Goroutines : GetCAS(g)
    \/ \E g \in Goroutines : GetReload(g)
    \/ \E g \in Goroutines : GetIndex(g)

SpecGrow == InitGrow /\ [][NextGrow]_vars

\* C8 (Get never faults): the lookup of line 144 is within the table it
\* reads, Get never panics, and once a Get with hint 4 has returned the
\* table has at least 5 slots.
GetNeverFaults ==
    /\ \A g \in Goroutines :
          /\ gor[g].pc # "panic"
          /\ gor[g].pc = "index" => gor[g].shardID < Len(Deref(gor[g].shards))
    /\ (\E p \in returned : p[1] = 4) => Len(Current) >= 5

\* the table was first published with 2 slots, and a Get with hint 4 has
\* returned
GetNeverFaultsWitness ==
    /\ Len(hist) >= 2
    /\ Len(tables[hist[1]]) = 2
    /\ \E p \in returned : p[1] = 4

(***************************************************************************)
(* The example of counter.go:14-27, run again and again, each run on a     *)
(* fresh Counter.  G1 alone calls Get, so no CAS fails.                    *)
(***************************************************************************)
ExampleProg ==
    [G1 |-> <<Add(1), Add(2)>>,
     G2 |-> <<Reset, WaitFor({"G1"}, 2), Load>>]

InitExample == InitWith(ExampleProg, AllProcs)

NextExample ==
    \/ SetGOMAXPROCS(AllProcs)
    \/ \E g \in Goroutines : GetPin(g)
    \/ \E g \in Goroutines : GetLoad(g)
    \/ \E g \in Goroutines : GetGrow(g)
    \/ \E g \in Goroutines : GetCAS(g)
    \/ \E g \in Goroutines : GetIndex(g)
    \/ \E g \in Goroutines : CounterAdd(g)
    \/ \E g \in Goroutines : DoLoad(g)
    \/ \E g \in Goroutines : DoVisit(g)
    \/ \E g \in Goroutines : Wait(g)
    \/ Restart

SpecExample == InitExample /\ [][NextExample]_vars

\* C9 (inconsistent views): the runs of the example end with <<t0, t1>>
\* one of <<0, 3>>, <<1, 2>>, <<2, 1>>, <<3, 0>>, and nothing else.
ViewsPossible ==
    outcomes \subseteq {<<0, 3>>, <<1, 2>>, <<2, 1>>, <<3, 0>>}

\* each of 0, 1, 2, 3 has been the t0 of a run and each the t1 of a run
ViewsWitness ==
    /\ {o[1] : o \in outcomes} = 0 .. 3
    /\ {o[2] : o \in outcomes} = 0 .. 3

(***************************************************************************)
(* The fixed-size Pointer: M builds it and then calls Get, as G1 and G2    *)
(* do, while GOMAXPROCS changes.                                           *)
(***************************************************************************)
PointerProg ==
    [M |-> <<NewPointer, PointerGet>>,
     G1 |-> <<WaitFor({"M"}, 1), PointerGet, PointerGet>>,
     G2 |-> <<WaitFor({"M"}, 1), PointerGet>>]

InitPointer == InitWith(PointerProg, AllProcs)

NextPointer ==
    \/ SetGOMAXPROCS(AllProcs)
    \/ \E g \in Goroutines : NewPointerCall(g)
    \/ \E g \in Goroutines : PointerGetPin(g)
    \/ \E g \in Goroutines : PointerGetIndex(g)
    \/ \E g \in Goroutines : Wait(g)

SpecPointer == InitPointer /\ [][NextPointer]_vars

\* g's last call was a Pointer.Get, which returned a shard
PointerGetReturned(g) == gor[g].pc = "idle" /\ gor[g].slot # NoSlot

\* The state of the fixed-size Pointer: the shards are as many as GOMAXPROCS
\* was when NewPointer ran; a Get that returns had a hint below that number and
\* returns the shard at the hint; a Get that panics had a hint of at least
\* that number, read when GOMAXPROCS was above it.
FixedPointerState ==
    /\ Len(fixed) = built
    /\ \A g \in Goroutines :
          /\ PointerGetReturned(g) =>
                /\ gor[g].shardID < built
                /\ gor[g].slot = fixed[gor[g].shardID + 1]
          /\ gor[g].pc = "panic" =>
                /\ gor[g].shardID >= built
                /\ gor[g].procs > built

\* C10 (fixed-size Pointer): the above holds in every state, and once built
\* the shards never change.
FixedPointer ==
    /\ []FixedPointerState
    /\ [][built > 0 => fixed' = fixed]_vars

\* one Get has returned a shard and another has panicked
FixedPointerWitness ==
    /\ \E g \in Goroutines : PointerGetReturned(g)
    /\ \E g \in Goroutines : gor[g].pc = "panic"

(***************************************************************************)
(* The growing Pointer: G1 and G2 call Get, racing for the growth of the   *)
(* table, while GOMAXPROCS changes.                                        *)
(***************************************************************************)
GrowingProg ==
    [G1 |-> <<GrowingGet, GrowingGet>>,
     G2 |-> <<GrowingGet>>]

InitGrowing == InitWith(GrowingProg, AllProcs)

NextGrowing ==
    \/ SetGOMAXPROCS(AllProcs)
    \/ \E g \in Goroutines : GrowingGetPin(g)
    \/ \E g \in Goroutines : GrowingGetLoad(g)
    \/ \E g \in Goroutines : GrowingGetGrow(g)
    \/ \E g \in Goroutines : GrowingGetCAS(g)
    \/ \E g \in Goroutines : GrowingGetReload(g)
    \/ \E g \in Goroutines : GrowingGetIndex(g)

SpecGrowing == InitGrowing /\ [][NextGrowing]_vars

\* C11 (growing Pointer): Get never indexes past the end of the table it
\* reads and never panics, and the slot it returns is the one at the hint
\* in the table it read.
GrowingNeverFaults ==
    \A g \in Goroutines :
        /\ gor[g].pc # "panic"
        /\ gor[g].pc = "gp_index" => gor[g].shardID < Len(Deref(gor[g].shards))
        /\ gor[g].slot # NoSlot => gor[g].slot = tables[gor[g].shards][gor[g].shardID + 1]

(***************************************************************************)
(* Further properties of Values, under SpecValues.                         *)
(***************************************************************************)
\* table v is a strict prefix of table w
StrictPrefix(v, w) ==
    /\ Len(v) < Len(w)
    /\ \A i \in 1 .. Len(v) : w[i] = v[i]

PrefixState ==
    \A j, k \in 1 .. Len(hist) :
        j < k => StrictPrefix(tables[hist[j]], tables[hist[k]])

\* C12 (prefix invariant): of two published tables the one published first
\* is a strict prefix of the other, and no table changes once it is built.
PrefixInvariant ==
    /\ []PrefixState
    /\ [][\A t \in DOMAIN tables : tables'[t] = tables[t]]_vars

\* the table has grown since it was first published, and a table that
\* lost the CAS was never published
PrefixWitness ==
    /\ Len(hist) >= 2
    /\ Len(tables[hist[1]]) >= 1
    /\ Cardinality(DOMAIN tables) > Len(hist)

Max(a, b) == IF a >= b THEN a ELSE b

\* g builds a table in this step
Builds(g) == gor[g].pc = "grow" /\ gor'[g].pc = "cas"

\* C13 (growth size): the table a growth attempt builds for index i has
\* max(GOMAXPROCS as read in the attempt, i + 1) slots: the slots of the
\* old table, then slots that did not exist before, are pairwise distinct
\* and hold the zero value.
GrowthSize ==
    [][\A g \in Goroutines :
         Builds(g) =>
            LET old == Deref(gor[g].shards)
                new == tables'[gor'[g].newShards]
            IN /\ Len(new) = Max(gomaxprocs, gor[g].shardID + 1)
               /\ Len(old) <= Len(new)
               /\ \A k \in 1 .. Len(old) : new[k] = old[k]
               /\ \A k \in Len(old) + 1 .. Len(new) :
                     /\ new[k] \notin DOMAIN val
                     /\ val'[new[k]] = 0
                     /\ \A l \in Len(old) + 1 .. Len(new) : l # k => new[l] # new[k]]_vars

\* a table was built on top of a published one for an index that
\* GOMAXPROCS, having decreased, no longer covers
GrowthSizeWitness ==
    \E g \in Goroutines :
        /\ gor[g].pc = "cas"
        /\ gor[g].shards # NIL
        /\ Len(tables[gor[g].newShards]) = gor[g].shardID + 1
        /\ gomaxprocs < gor[g].shardID + 1

(***************************************************************************)
(* Values.Get under a scheduler that keeps running every goroutine that    *)
(* can take a step; GOMAXPROCS changes or not, as the environment likes.    *)
(***************************************************************************)
LiveProg ==
    [G1 |-> <<Get, Get>>,
     G2 |-> <<Get>>]

InitLive == InitWith(LiveProg, AllProcs)

GetStep(g) ==
    \/ GetPin(g)
    \/ GetLoad(g)
    \/ GetGrow(g)
    \/ GetCAS(g)
    \/ GetReload(g)
    \/ GetIndex(g)

NextLive ==
    \/ SetGOMAXPROCS(AllProcs)
    \/ \E g \in Goroutines : GetPin(g)
    \/ \E g \in Goroutines : GetLoad(g)
    \/ \E g \in Goroutines : GetGrow(g)
    \/ \E g \in Goroutines : GetCAS(g)
    \/ \E g \in Goroutines : GetReload(g)
    \/ \E g \in Goroutines : GetIndex(g)

SpecLive ==
    /\ InitLive
    /\ [][NextLive]_vars
    /\ \A g \in DOMAIN LiveProg : WF_vars(GetStep(g))

\* g reloads the table after a failed CAS in this step
Reloads(g) == gor[g].pc = "reload" /\ gor'[g].pc # "reload"

\* C14 (no livelock): a Get call in progress eventually returns, and the
\* reload after a failed CAS yields another, strictly longer table than
\* the one the failed attempt was based on.
NoLivelock ==
    /\ \A g \in DOMAIN LiveProg : (gor[g].pc # "idle") ~> (gor[g].pc = "idle")
    /\ [][\A g \in Goroutines :
            Reloads(g) =>
               /\ gor'[g].shards # gor[g].shards
               /\ Len(Deref(gor'[g].shards)) > Len(Deref(gor[g].shards))]_vars

\* every call has returned, one of them after it lost a CAS
NoLivelockWitness ==
    /\ \A g \in Goroutines : Finished(g)
    /\ Cardinality(DOMAIN tables) > Len(hist)

(***************************************************************************)
(* The retry bound of Values.Get.  A compare-and-swap of percpu.go:136     *)
(* fails only when another table was published since the load the attempt  *)
(* is based on, and base counts the tables published before the call's     *)
(* first load.                                                             *)
(***************************************************************************)
PublishedSince(g) == {j \in (gor[g].base + 1) .. Len(hist) : hist[j][1] # g}

\* C15 as stated, callers read as goroutines: the failed CASes of a Get
\* call number at most the other goroutines that published a table during
\* the call.
RetryBoundCallers ==
    \A g \in Goroutines :
        gor[g].fails <= Cardinality({hist[j][1] : j \in PublishedSince(g)})

\* C15 amended: the failed CASes of a Get call number at most the tables
\* that other Get calls published during the call.
RetryBound ==
    \A g \in Goroutines :
        gor[g].fails <= Cardinality(PublishedSince(g))

\* a Get call whose CAS failed twice
RetryBoundWitness ==
    \E g \in Goroutines : gor[g].fails >= 2

(***************************************************************************)
(* Values.Do and its one snapshot.                                         *)
(***************************************************************************)
\* g takes the step of Do that loads the table
DoLoads(g) ==
    /\ Idle(g)
    /\ Cur(g).op \in {"Load", "Reset"}
    /\ gor'[g].pc = "visit" \/ Len(ret'[g]) > Len(ret[g])

\* g takes a step of Do
DoSteps(g) ==
    \/ DoLoads(g)
    \/ gor[g].pc = "visit" /\ gor'[g] # gor[g]

\* the slots fn has been applied to are the first i-1 slots of the
\* snapshot, and all of them when Do has returned
VisitsSnapshot(g) ==
    LET snap == Deref(gor[g].shards)
    IN /\ gor[g].pc = "visit" =>
              /\ gor[g].i \in 1 .. Len(snap)
              /\ gor[g].visited = SubSeq(snap, 1, gor[g].i - 1)
       /\ DoReturned(g) => gor[g].visited = snap

\* C16 (one snapshot): Do loads the table once and applies fn once to
\* each slot of that snapshot, in index order; tables published after the
\* load change nothing of it; with no table published fn is not applied
\* and no table is created.
DoOneSnapshot ==
    /\ [](\A g \in Goroutines : VisitsSnapshot(g))
    /\ [][\A g \in Goroutines :
            /\ gor[g].pc = "visit" => gor'[g].shards = gor[g].shards
            /\ DoSteps(g) =>
                  /\ tables' = tables
                  /\ published' = published
                  /\ gor[g].pc = "idle" => gor'[g].shards = published
                  /\ gor[g].pc = "idle" /\ published = NIL =>
                        gor'[g].pc = "idle" /\ gor'[g].visited = <<>>]_vars

\* a Do has returned after visiting the slots of its snapshot, and the
\* table published by then is another, longer one
DoOneSnapshotWitness ==
    \E g \in Goroutines :
        /\ DoReturned(g)
        /\ Len(gor[g].visited) >= 1
        /\ published # gor[g].shards
        /\ Len(Current) > Len(gor[g].visited)

\* the slots Get has returned; Counter.Add adds to no other slot
Handed == {p[2] : p \in returned}

\* C17 (missed slots are untouched): when Load or Reset loads its
\* snapshot, every allocated slot that is not in the snapshot holds 0 and
\* Get has returned it to no caller; an Add adds to a slot Get has returned,
\* so that no Add on a missed slot has completed.
MissedUntouched ==
    /\ [](\A g \in Goroutines : gor[g].pc = "add" => gor[g].slot \in Handed)
    /\ [][\A g \in Goroutines :
            DoLoads(g) =>
                \A s \in DOMAIN val \ Range(Deref(gor'[g].shards)) :
                    val[s] = 0 /\ s \notin Handed]_vars

\* Load or Reset has just loaded a snapshot that misses an allocated slot,
\* after an Add has completed
MissedWitness ==
    \E g \in Goroutines :
        /\ gor[g].pc = "visit"
        /\ gor[g].i = 1
        /\ gor[g].before > 0
        /\ gor[g].born \ Range(Deref(gor[g].shards)) # {}

\* g takes the step of Get that returns a slot to the caller of Get
GetReturns(g) == gor[g].pc = "index" /\ Len(ret'[g]) > Len(ret[g])

\* the table slot s was allocated for, at percpu.go:128-130
Allocator(s) == <<s[1], s[2]>>

\* the tables built by g that lost their CAS
Discarded(g) ==
    {t \in DOMAIN tables \ Range(hist) : t[1] = g /\ t # gor[g].newShards}

\* C18 (Get returns only published slots): the slot Get returns for index
\* i is at index i of the table published at that moment, a table that
\* was published and not one the caller discarded; a Do that loads
\* afterwards has it in its snapshot, and has applied fn to every slot of
\* its snapshot when it returns.
GetReturnsPublished ==
    /\ [][\A g \in Goroutines :
            GetReturns(g) =>
                LET s == ret'[g][Len(ret'[g])]
                IN /\ gor[g].shardID < Len(Current)
                   /\ s = Current[gor[g].shardID + 1]
                   /\ Allocator(s) \in Range(hist)
                   /\ Allocator(s) \notin Discarded(g)]_vars
    /\ [][\A g \in Goroutines :
            DoLoads(g) => Handed \subseteq Range(Deref(gor'[g].shards))]_vars
    /\ [](\A g \in Goroutines :
            DoReturned(g) => Range(Deref(gor[g].shards)) \subseteq Range(gor[g].visited))

\* a caller of Get has discarded a table and has been returned a slot, and
\* a Do has applied fn to that slot
GetReturnsPublishedWitness ==
    \E g, d \in Goroutines :
        /\ prog[g][1].op = "Get"
        /\ gor[g].pc = "idle"
        /\ Len(ret[g]) >= 1
        /\ Discarded(g) # {}
        /\ DoReturned(d)
        /\ ret[g][1] \in Range(gor[d].visited)

(***************************************************************************)
(* Several Resets: two adders and two resetters run concurrently; once     *)
(* they have all returned the second resetter loads.                       *)
(***************************************************************************)
ResetsProg ==
    [A1 |-> <<Add(1)>>,
     A2 |-> <<Add(2)>>,
     R1 |-> <<Reset>>,
     R2 |-> <<Reset, WaitFor({"A1", "A2", "R1"}, 1), Load>>]

InitResets == InitWith(ResetsProg, AllProcs)

SpecResets == InitResets /\ [][Next]_vars

\* C19 (conservation with several Resets): once the Adds and the Resets
\* have returned, what the Resets returned plus what the Load that follows
\* returns is the sum of the arguments of all the Adds.
ResetsConservation ==
    Finished("R2") => ret["R1"][1] + ret["R2"][1] + ret["R2"][3] = AddsTotal

\* the Load has returned, each of the two Resets returned a part of the
\* total and the adders raced for the growth of the table
ResetsWitness ==
    /\ Finished("R2")
    /\ ret["R1"][1] > 0
    /\ ret["R2"][1] > 0
    /\ Cardinality(DOMAIN tables) > Len(hist)

(***************************************************************************)
(* A Load racing the Adds, with no Reset: G2 loads while G1 and G3 add.    *)
(***************************************************************************)
LoadRaceProg ==
    [G1 |-> <<Add(1), Add(2)>>,
     G2 |-> <<Load>>,
     G3 |-> <<Add(4)>>]

InitLoadRace == InitWith(LoadRaceProg, AllProcs)

SpecLoadRace == InitLoadRace /\ [][NextInFlight]_vars

\* the step in which a Load of g returns
LoadReturnsTo(g) ==
    /\ ~Finished(g)
    /\ Cur(g).op = "Load"
    /\ Len(ret'[g]) > Len(ret[g])

\* C20 (Load bounds): with non-negative Adds and no Reset, what Load
\* returns is at least the total of the Adds that had returned when Load
\* was invoked and at most the total of the Adds that have been invoked
\* when Load returns.
LoadBounds ==
    [][\A g \in Goroutines :
          LoadReturnsTo(g) =>
              LET r == ret'[g][Len(ret'[g])]
              IN gor'[g].before <= r /\ r <= AddsInvoked']_vars

\* Load has returned more than had been added when it was invoked and less
\* than has been added by now
LoadBoundsWitness ==
    /\ Finished("G2")
    /\ 0 < gor["G2"].before
    /\ gor["G2"].before < ret["G2"][1]
    /\ ret["G2"][1] < AddsInvoked

====
